---- MODULE Spec2Model ----
(***************************************************************************)
(* Model of the game core of iced-tictactoe (src/src/main.rs): the         *)
(* TicTacToe struct, its update() handler for the four messages, and       *)
(* calculate_winner.  Vec indices are 0-based in the source and TLA+       *)
(* sequences are 1-based, so turns[turn_index] of the source is            *)
(* turns[turn_index + 1] here.                                             *)
(***************************************************************************)
EXTENDS Integers, Sequences, FiniteSets, TLC

\* Highest square index the model clicks: the squares 0..MaxSquare take part
\* in the games explored, the others stay empty.
MaxSquare == 5

\* ---------------------------------------------------------------- data
\* enum SquareValue { X, O }
SquareValue == {"X", "O"}

\* Option::None
None == "None"

\* Option<SquareValue>
OptSquareValue == SquareValue \cup {None}

\* indices of the 9 cells of a SquareArray
Squares == 0..8

\* type SquareArray = [Option<SquareValue>; 9]
SquareArray == [Squares -> OptSquareValue]

\* [None::<SquareValue>; 9]
EmptyBoard == [s \in Squares |-> None]

\* next that returns X for both values
next_AlwaysX(v) == "X"

\* SquareValue::next
next(v) == IF v = "X" THEN "O" ELSE "X"

\* the lines table of calculate_winner
lines == << <<0, 1, 2>>, <<3, 4, 5>>, <<6, 7, 8>>,
            <<0, 3, 6>>, <<1, 4, 7>>, <<2, 5, 8>>,
            <<0, 4, 8>>, <<2, 4, 6>> >>

\* LineMatches without the comparison with the third square
LineMatches_TwoSquares(squares, line) ==
    /\ squares[line[1]] # None
    /\ squares[line[1]] = squares[line[2]]

\* the test in the body of the for loop of calculate_winner
LineMatches(squares, line) ==
    /\ squares[line[1]] # None
    /\ squares[line[1]] = squares[line[2]]
    /\ squares[line[1]] = squares[line[3]]

\* the for loop of calculate_winner from line number k on: the first line
\* (in table order) that matches decides, None when none matches
RECURSIVE WinnerFrom(_, _)
WinnerFrom(squares, k) ==
    IF k > Len(lines) THEN None
    ELSE IF LineMatches(squares, lines[k]) THEN squares[lines[k][1]]
    ELSE WinnerFrom(squares, k + 1)

calculate_winner(squares) == WinnerFrom(squares, 1)

\* ---------------------------------------------------------------- state
VARIABLES
    next_square_value,  \* TicTacToe.next_square_value
    winner,             \* TicTacToe.winner
    turns,              \* TicTacToe.turns
    turn_index,         \* TicTacToe.turn_index (0-based)
    last,               \* history variable: the last message handled
    branch,             \* history variable: progress of a rewind-and-replay
    probe               \* a call of calculate_winner: argument and result

vars ==
    <<next_square_value, winner, turns, turn_index, last, branch, probe>>

game == <<next_square_value, winner, turns, turn_index>>

\* the board on display, self.turns[self.turn_index]
Current == turns[turn_index + 1]

\* square index recorded when no mark was written: one past the last square
NoSquare == Cardinality(Squares)

\* Record of a handled message: the message; whether update() got past its
\* early return; the square a mark was written to (NoSquare when none was);
\* for a SquareClicked message, whether the clicked square was occupied; and
\* the turn index, the length of turns and the winner before the message.
Handled(op, applied, placed, occupied) ==
    [op |-> op, applied |-> applied, placed |-> placed,
     occupied |-> occupied, index |-> turn_index,
     len |-> Len(turns), winner |-> winner]

\* Progress of the sequence "turns holds three boards and the last one is on
\* display; PreviousTurn; PreviousTurn; SquareClicked": stage counts the
\* messages of the sequence handled so far and b1 keeps the board turns[1]
\* held when the sequence began.
Rewind(op, applied) ==
    IF op = "PreviousTurn" /\ applied /\ Len(turns) = 3 /\ turn_index = 2
    THEN [stage |-> 1, b1 |-> turns[2]]
    ELSE IF op = "PreviousTurn" /\ applied /\ branch.stage = 1
    THEN [stage |-> 2, b1 |-> branch.b1]
    ELSE IF op = "SquareClicked" /\ branch.stage = 2
    THEN [stage |-> 3, b1 |-> branch.b1]
    ELSE [stage |-> 0, b1 |-> EmptyBoard]

Record(op, applied, placed, occupied) ==
    /\ last' = Handled(op, applied, placed, occupied)
    /\ branch' = Rewind(op, applied)
    /\ UNCHANGED probe

\* a call of calculate_winner on squares that has not returned yet
Call(squares) == [squares |-> squares, result |-> None, done |-> FALSE]

\* TicTacToe::new
Init ==
    /\ next_square_value = "X"
    /\ winner = None
    /\ turns = <<EmptyBoard>>
    /\ turn_index = 0
    /\ last = [op |-> "new", applied |-> TRUE, placed |-> NoSquare,
               occupied |-> FALSE, index |-> 0, len |-> 0, winner |-> None]
    /\ branch = [stage |-> 0, b1 |-> EmptyBoard]
    /\ probe = Call(EmptyBoard)

\* ClickIgnored without the test of the clicked square
ClickIgnored_NoSquareTest(square_index) ==
    \/ winner # None
    \/ calculate_winner(Current) # None

\* ClickIgnored without the test of the recorded winner
ClickIgnored_NoWinnerTest(square_index) ==
    \/ Current[square_index] # None
    \/ calculate_winner(Current) # None

\* ClickIgnored that tests the clicked square only
ClickIgnored_OnlySquareTest(square_index) ==
    Current[square_index] # None

\* the condition of the early return of the SquareClicked arm
ClickIgnored(square_index) ==
    \/ winner # None
    \/ Current[square_index] # None
    \/ calculate_winner(Current) # None

\* Place without the truncate call
Place_NoTruncate(next_squares) ==
    IF turn_index + 1 < Len(turns)
    THEN [turns EXCEPT ![turn_index + 2] = next_squares]
    ELSE Append(turns, next_squares)

\* Place truncating one board too late
Place_TruncateLate(next_squares) ==
    IF turn_index + 1 < Len(turns)
    THEN SubSeq([turns EXCEPT ![turn_index + 2] = next_squares],
                1, IF turn_index + 3 <= Len(turns)
                   THEN turn_index + 3 ELSE turn_index + 2)
    ELSE Append(turns, next_squares)

\* Place that truncates without writing the new board first
Place_NoOverwrite(next_squares) ==
    IF turn_index + 1 < Len(turns)
    THEN SubSeq(turns, 1, turn_index + 2)
    ELSE Append(turns, next_squares)

\* the branch-or-append step of the SquareClicked arm
Place(next_squares) ==
    IF turn_index + 1 < Len(turns)
    THEN SubSeq([turns EXCEPT ![turn_index + 2] = next_squares],
                1, turn_index + 2)
    ELSE Append(turns, next_squares)

\* SquareClicked computing the winner from the board before the move
SquareClicked_WinnerOfOldBoard(square_index) ==
    IF ClickIgnored(square_index)
    THEN /\ UNCHANGED game
         /\ Record("SquareClicked", FALSE, NoSquare,
                   Current[square_index] # None)
    ELSE LET next_squares ==
                 [Current EXCEPT ![square_index] = next_square_value]
         IN /\ turns' = Place(next_squares)
            /\ turn_index' = turn_index + 1
            /\ next_square_value' = next(next_square_value)
            /\ winner' = calculate_winner(Current)
            /\ Record("SquareClicked", TRUE, square_index, FALSE)

\* SquareClicked copying the last board of turns, not the one on display
SquareClicked_CopiesLastBoard(square_index) ==
    IF ClickIgnored(square_index)
    THEN /\ UNCHANGED game
         /\ Record("SquareClicked", FALSE, NoSquare,
                   Current[square_index] # None)
    ELSE LET next_squares ==
                 [turns[Len(turns)] EXCEPT
                      ![square_index] = next_square_value]
         IN /\ turns' = Place(next_squares)
            /\ turn_index' = turn_index + 1
            /\ next_square_value' = next(next_square_value)
            /\ winner' = calculate_winner(next_squares)
            /\ Record("SquareClicked", TRUE, square_index, FALSE)

\* update(Message::SquareClicked(square_index))
SquareClicked(square_index) ==
    IF ClickIgnored(square_index)
    THEN /\ UNCHANGED game
         /\ Record("SquareClicked", FALSE, NoSquare,
                   Current[square_index] # None)
    ELSE LET next_squares ==
                 [Current EXCEPT ![square_index] = next_square_value]
         IN /\ turns' = Place(next_squares)
            /\ turn_index' = turn_index + 1
            /\ next_square_value' = next(next_square_value)
            /\ winner' = calculate_winner(next_squares)
            /\ Record("SquareClicked", TRUE, square_index, FALSE)

\* PreviousTurn that does not flip next_square_value
PreviousTurn_NoFlip ==
    IF turn_index = 0
    THEN /\ UNCHANGED game
         /\ Record("PreviousTurn", FALSE, NoSquare, FALSE)
    ELSE /\ turn_index' = turn_index - 1
         /\ UNCHANGED <<next_square_value, winner, turns>>
         /\ Record("PreviousTurn", TRUE, NoSquare, FALSE)

\* PreviousTurn that flips next_square_value before its early return
PreviousTurn_FlipFirst ==
    IF turn_index = 0
    THEN /\ next_square_value' = next(next_square_value)
         /\ UNCHANGED <<winner, turns, turn_index>>
         /\ Record("PreviousTurn", FALSE, NoSquare, FALSE)
    ELSE /\ turn_index' = turn_index - 1
         /\ next_square_value' = next(next_square_value)
         /\ UNCHANGED <<winner, turns>>
         /\ Record("PreviousTurn", TRUE, NoSquare, FALSE)

\* PreviousTurn that computes the winner of the board it puts on display
PreviousTurn_Recompute ==
    IF turn_index = 0
    THEN /\ UNCHANGED game
         /\ Record("PreviousTurn", FALSE, NoSquare, FALSE)
    ELSE /\ turn_index' = turn_index - 1
         /\ next_square_value' = next(next_square_value)
         /\ winner' = calculate_winner(turns[turn_index])
         /\ UNCHANGED turns
         /\ Record("PreviousTurn", TRUE, NoSquare, FALSE)

\* update(Message::PreviousTurn)
PreviousTurn ==
    IF turn_index = 0
    THEN /\ UNCHANGED game
         /\ Record("PreviousTurn", FALSE, NoSquare, FALSE)
    ELSE /\ turn_index' = turn_index - 1
         /\ next_square_value' = next(next_square_value)
         /\ UNCHANGED <<winner, turns>>
         /\ Record("PreviousTurn", TRUE, NoSquare, FALSE)

\* NextTurn whose early return tests > where the code tests >=
NextTurn_OffByOne ==
    IF turn_index > Len(turns) - 1
    THEN /\ UNCHANGED game
         /\ Record("NextTurn", FALSE, NoSquare, FALSE)
    ELSE /\ turn_index' = turn_index + 1
         /\ next_square_value' = next(next_square_value)
         /\ UNCHANGED <<winner, turns>>
         /\ Record("NextTurn", TRUE, NoSquare, FALSE)

\* update(Message::NextTurn)
NextTurn ==
    IF turn_index >= Len(turns) - 1
    THEN /\ UNCHANGED game
         /\ Record("NextTurn", FALSE, NoSquare, FALSE)
    ELSE /\ turn_index' = turn_index + 1
         /\ next_square_value' = next(next_square_value)
         /\ UNCHANGED <<winner, turns>>
         /\ Record("NextTurn", TRUE, NoSquare, FALSE)

\* StartNewGame that keeps the recorded winner
StartNewGame_KeepsWinner ==
    /\ turn_index' = 0
    /\ next_square_value' = "X"
    /\ turns' = <<EmptyBoard>>
    /\ UNCHANGED winner
    /\ Record("StartNewGame", TRUE, NoSquare, FALSE)

\* update(Message::StartNewGame)
StartNewGame ==
    /\ turn_index' = 0
    /\ winner' = None
    /\ next_square_value' = "X"
    /\ turns' = <<EmptyBoard>>
    /\ Record("StartNewGame", TRUE, NoSquare, FALSE)

\* the squares whose buttons are pressed
ClickSquares == {square_index \in Squares : square_index <= MaxSquare}

\* view() offers one button per square of the board on display, so the
\* square index of a SquareClicked message is always an index of the board
Click == \E square_index \in ClickSquares : SquareClicked(square_index)

Next ==
    \/ Click
    \/ PreviousTurn
    \/ NextTurn
    \/ StartNewGame

Spec == Init /\ [][Next]_vars

\* ------------------------------------------------- only SquareClicked
\* the game when no button but the squares is pressed
ClickNext == Click

ClickSpec == Init /\ [][ClickNext]_vars

\* ------------------------------------------------- games played to the end
\* the board with X on the squares xs and O on all the others
FullBoard(xs) == [s \in Squares |-> IF s \in xs THEN "X" ELSE "O"]

\* Final boards the players head for: a draw (X on 0, 1, 5, 6, 8) and a
\* board on which X holds both the top row and the left column.
Plans == {FullBoard({0, 1, 5, 6, 8}), FullBoard({0, 1, 2, 3, 6})}

\* every mark of board b is the mark plan p has on that square
Follows(b, p) == \A s \in Squares : b[s] = None \/ b[s] = p[s]

\* no square of board b is empty
Full(b) == \A s \in Squares : b[s] # None

\* The squares pressed in these games: a square whose mark keeps the board
\* on the way to one of the plans, and any square at all once the board on
\* display is full or a winner is recorded.
PlanSquares ==
    {square_index \in Squares :
        \/ winner # None
        \/ Full(Current)
        \/ \E p \in Plans :
               Follows([Current EXCEPT ![square_index] = next_square_value],
                       p)}

PlanClick == \E square_index \in PlanSquares : SquareClicked(square_index)

PlanNext ==
    \/ PlanClick
    \/ PreviousTurn
    \/ NextTurn
    \/ StartNewGame

PlanSpec == Init /\ [][PlanNext]_vars

\* ------------------------------------------------- calculate_winner alone
\* calculate_winner is about to be called on any of the 3^9 boards
WinInit ==
    /\ next_square_value = "X"
    /\ winner = None
    /\ turns = <<EmptyBoard>>
    /\ turn_index = 0
    /\ last = [op |-> "new", applied |-> TRUE, placed |-> NoSquare,
               occupied |-> FALSE, index |-> 0, len |-> 0, winner |-> None]
    /\ branch = [stage |-> 0, b1 |-> EmptyBoard]
    /\ probe \in {Call(squares) : squares \in SquareArray}

\* the call returns
Evaluate ==
    /\ ~probe.done
    /\ probe' = [probe EXCEPT !.result = calculate_winner(probe.squares),
                              !.done = TRUE]
    /\ UNCHANGED <<game, last, branch>>

WinNext == Evaluate

WinSpec == WinInit /\ [][WinNext]_vars

TypeOK ==
    /\ next_square_value \in SquareValue
    /\ winner \in OptSquareValue
    /\ turns \in Seq(SquareArray)
    /\ Len(turns) \in 1..(Cardinality(Squares) + 1)
    /\ turn_index \in 0..(Len(turns) - 1)

\* ---------------------------------------------------------------- claims
\* the last message handled was a SquareClicked that wrote a mark
Placed == last.op = "SquareClicked" /\ last.applied

\* the last message handled was a SquareClicked that took the early return
ClickDropped == last.op = "SquareClicked" /\ ~last.applied

\* C1: in every reachable state the recorded winner is the result of
\* calculate_winner on the board on display, turns[turn_index].
C1_WinnerOfCurrentBoard == winner = calculate_winner(Current)

\* C2: a SquareClicked on a square that is occupied on the board on display
\* leaves turns, turn_index, next_square_value and winner unchanged: a step
\* that changes one of them is not such a SquareClicked.
C2_OccupiedSquareKept ==
    [][UNCHANGED game
       \/ \A i \in Squares : ~(Current[i] # None /\ SquareClicked(i))]_vars

\* a click on an occupied square was dropped while no winner was recorded
C2_Witness ==
    /\ ClickDropped
    /\ last.occupied
    /\ last.winner = None
    /\ calculate_winner(Current) = None

\* C3: while a winner is recorded, a SquareClicked on any square, empty ones
\* included, leaves turns, turn_index, next_square_value and winner
\* unchanged: a step that changes one of them is not a SquareClicked.
C3_NoMoveAfterWin ==
    [][winner # None =>
           (UNCHANGED game \/ \A i \in Squares : ~SquareClicked(i))]_vars

\* a click on an empty square was dropped because a winner was recorded
C3_Witness ==
    /\ ClickDropped
    /\ ~last.occupied
    /\ last.winner # None
    /\ winner = last.winner

\* board b is board a with one mark written to a square that was empty
OneMove(a, b) ==
    \E i \in Squares :
        /\ a[i] = None
        /\ b[i] # None
        /\ \A j \in Squares \ {i} : b[j] = a[j]

\* C4: every board of turns after the first is its predecessor with exactly
\* one mark added on a square that was empty, also after a move made while
\* an earlier board was on display.
C4_OneMovePerTurn ==
    \A i \in 2..Len(turns) : OneMove(turns[i - 1], turns[i])

\* a mark was placed while boards beyond the one on display existed, and at
\* least two boards follow the empty one
C4_Witness ==
    /\ Placed
    /\ last.index + 1 < last.len
    /\ Len(turns) >= 3

\* C5 (state part): next_square_value is X exactly when turn_index is even.
C5_Parity == (next_square_value = "X") <=> (turn_index % 2 = 0)

\* C5 (step part): a message that gets past its early return, other than
\* StartNewGame, flips next_square_value; a dropped message keeps it.
C5_Flip ==
    /\ (last'.applied /\ last'.op # "StartNewGame")
           => next_square_value' = next(next_square_value)
    /\ ~last'.applied => next_square_value' = next_square_value

\* C5: next_square_value is X when turn_index is even and O when it is odd;
\* it flips on every applied SquareClicked, PreviousTurn and NextTurn and is
\* kept by every dropped message.
C5_MarkFollowsIndex == []C5_Parity /\ [][C5_Flip]_vars

\* a PreviousTurn moved the display to an odd index, where O is next
C5_Witness ==
    /\ last.op = "PreviousTurn"
    /\ last.applied
    /\ turn_index % 2 = 1
    /\ next_square_value = "O"

\* C6: turns is never empty, its first board is the empty board, and
\* turn_index is an index of turns.
C6_IndexInTurns ==
    /\ Len(turns) >= 1
    /\ turns[1] = EmptyBoard
    /\ 0 <= turn_index
    /\ turn_index < Len(turns)

\* a NextTurn moved the display to the last board of turns
C6_Witness ==
    /\ last.op = "NextTurn"
    /\ last.applied
    /\ turn_index = Len(turns) - 1

\* C7 as stated: after turns held three boards with the last on display,
\* two PreviousTurn and one SquareClicked on any square leave two boards in
\* turns and the new turns[1] differs from the board turns[1] held before.
C7_ReplayAlwaysDiffers ==
    branch.stage = 3 => (Len(turns) = 2 /\ turns[2] # branch.b1)

\* C7 as amended: the SquareClicked is applied and leaves two boards in
\* turns; the new turns[1] equals the old one exactly when the clicked
\* square is the square marked in the old one.
C7_ReplayDiffersOnOtherSquare ==
    branch.stage = 3 =>
        /\ Placed
        /\ Len(turns) = 2
        /\ turn_index = 1
        /\ (turns[2] = branch.b1) <=> (branch.b1[last.placed] # None)

\* the sequence ended with a mark on a square other than the old first move
C7_Witness ==
    /\ branch.stage = 3
    /\ Placed
    /\ last.len = 3
    /\ turns[2] # branch.b1

\* the state TicTacToe::new builds
Fresh ==
    /\ turns = <<EmptyBoard>>
    /\ turn_index = 0
    /\ next_square_value = "X"
    /\ winner = None

\* C8: StartNewGame leaves one empty board in turns, turn_index 0,
\* next_square_value X and no winner, whatever the state before.
C8_ResetIsFresh == last.op = "StartNewGame" => Fresh

\* StartNewGame was handled in a game that had a winner
C8_Witness ==
    /\ last.op = "StartNewGame"
    /\ last.winner # None
    /\ last.len > 1
    /\ Fresh

\* C9: PreviousTurn with the first board on display and NextTurn with the
\* last board on display leave turns, turn_index, next_square_value and
\* winner unchanged.
C9_BoundaryNoOp ==
    [][/\ (turn_index = 0 /\ PreviousTurn) => UNCHANGED game
       /\ (turn_index = Len(turns) - 1 /\ NextTurn) => UNCHANGED game]_vars

\* a PreviousTurn was dropped at the first board of a game with moves in it
C9_Witness ==
    /\ last.op = "PreviousTurn"
    /\ ~last.applied
    /\ turn_index = 0
    /\ Len(turns) > 1

\* squares clicked in the example game of C10, in order
ExampleMoves == <<0, 3, 1, 4, 2>>

\* the board after the first k example moves, X moving first
RECURSIVE ExampleBoard(_)
ExampleBoard(k) ==
    IF k = 0 THEN EmptyBoard
    ELSE [ExampleBoard(k - 1) EXCEPT
              ![ExampleMoves[k]] = IF k % 2 = 1 THEN "X" ELSE "O"]

\* the k-th example move has just been placed after the k - 1 before it
ExamplePlayed(k) ==
    /\ Placed
    /\ turn_index = k
    /\ turns = [j \in 1..(k + 1) |-> ExampleBoard(j - 1)]

\* C10: right after a SquareClicked that wrote a mark, winner is the result
\* of calculate_winner on the new board on display; in the game 0, 3, 1, 4,
\* 2 there is no winner after each of the first four moves and X is the
\* winner after the fifth.
C10_WinnerAfterMove ==
    /\ Placed => winner = calculate_winner(Current)
    /\ \A k \in 1..Len(ExampleMoves) :
           ExamplePlayed(k) =>
               winner = IF k = Len(ExampleMoves) THEN "X" ELSE None

\* the fifth example move has been placed and X is recorded as the winner
C10_Witness == ExamplePlayed(Len(ExampleMoves)) /\ winner = "X"

\* the squares on which board b differs from board a
Changed(a, b) == {i \in Squares : a[i] # b[i]}

\* C11: when only SquareClicked messages are handled, turns[k] is the board
\* left by the k-th mark written, and that mark is X when k is odd and O
\* when k is even, dropped clicks in between or not.
C11_MarksAlternate ==
    \A k \in 1..(Len(turns) - 1) :
        \E i \in Squares :
            /\ Changed(turns[k], turns[k + 1]) = {i}
            /\ turns[k + 1][i] = IF k % 2 = 1 THEN "X" ELSE "O"

\* a click was dropped after the fourth mark, an O, had been written
C11_Witness ==
    /\ ClickDropped
    /\ Len(turns) = 5
    /\ \E i \in Squares :
           /\ Changed(turns[4], turns[5]) = {i}
           /\ turns[5][i] = "O"

\* the eight winning lines in the order the claim lists them
ClaimLines == << {0, 1, 2}, {3, 4, 5}, {6, 7, 8}, {0, 3, 6},
                 {1, 4, 7}, {2, 5, 8}, {0, 4, 8}, {2, 4, 6} >>

\* every square of line l of board b holds mark m
AllOf(b, l, m) == \A i \in l : b[i] = m

\* C12 as stated: on every board, calculate_winner returns m exactly when
\* one of the eight lines holds m on all three squares.
C12_WinnerIffSomeLine ==
    probe.done =>
        \A m \in SquareValue :
            (probe.result = m) <=>
                \E k \in 1..Len(ClaimLines) :
                    AllOf(probe.squares, ClaimLines[k], m)

\* C12 as amended: calculate_winner returns m exactly when one of the eight
\* lines holds m on all three squares and no line listed before it holds
\* the other mark on all three.
C12_WinnerIsFirstLine ==
    probe.done =>
        \A m \in SquareValue :
            (probe.result = m) <=>
                \E k \in 1..Len(ClaimLines) :
                    /\ AllOf(probe.squares, ClaimLines[k], m)
                    /\ \A j \in 1..(k - 1) :
                           ~AllOf(probe.squares, ClaimLines[j], next(m))

\* calculate_winner returned O for a board that also has a line of X
C12_Witness ==
    /\ probe.done
    /\ probe.result = "O"
    /\ \E k \in 1..Len(ClaimLines) : AllOf(probe.squares, ClaimLines[k], "X")

\* the lines of board b that hold one mark on all three squares
Completed(b) ==
    {k \in 1..Len(ClaimLines) :
        \E m \in SquareValue : AllOf(b, ClaimLines[k], m)}

\* the board on display is full and none of its lines is completed
DrawOnDisplay == Full(Current) /\ Completed(Current) = {}

\* C13 (state part): with a full board without a completed line on display
\* no winner is recorded.
C13_NoWinner == DrawOnDisplay => winner = None

\* C13 (step part): with such a board on display a SquareClicked on any
\* square changes nothing: a step that changes turns, turn_index,
\* next_square_value or winner is not a SquareClicked.
C13_NoMove ==
    DrawOnDisplay =>
        (UNCHANGED game \/ \A i \in Squares : ~SquareClicked(i))

\* C13: whenever the board on display is full and has no completed line,
\* as after X on 0, 1, 5, 6, 8 and O on 2, 3, 4, 7 in any order of play,
\* winner is None and a SquareClicked on every square is a no-op.
C13_DrawIsInert == []C13_NoWinner /\ [][C13_NoMove]_vars

\* a click was dropped on the full board of the example, no winner recorded
C13_Witness ==
    /\ ClickDropped
    /\ last.occupied
    /\ Current = FullBoard({0, 1, 5, 6, 8})
    /\ DrawOnDisplay
    /\ winner = None

\* C14: after stepping back from a won position a SquareClicked on an empty
\* square of the board on display, which has no completed line, is applied:
\* a click on an empty square is dropped only when the board on display
\* has a completed line.
C14_MoveAfterSteppingBack ==
    (ClickDropped /\ ~last.occupied) => calculate_winner(Current) # None

\* C15: a SquareClicked that writes a mark on square i with board c on
\* display leaves c + 2 boards in turns, keeps the boards 0..c, makes board
\* c + 1 the old board c with the old next_square_value on square i, and
\* puts board c + 1, the last one, on display.
C15_BranchOnDiverge ==
    [][(last'.op = "SquareClicked" /\ last'.applied) =>
           /\ Len(turns') = turn_index + 2
           /\ SubSeq(turns', 1, turn_index + 1)
                  = SubSeq(turns, 1, turn_index + 1)
           /\ turns'[turn_index + 2]
                  = [Current EXCEPT ![last'.placed] = next_square_value]
           /\ turn_index' = turn_index + 1
           /\ turn_index' = Len(turns') - 1]_vars

\* a mark was written with two or more boards beyond the one on display,
\* and all but the new one are gone
C15_Witness ==
    /\ Placed
    /\ last.index + 2 < last.len
    /\ Len(turns) = last.index + 2
    /\ turn_index = Len(turns) - 1

\* C16: a PreviousTurn away from the first board moves turn_index down by
\* one, a NextTurn away from the last board moves it up by one, both flip
\* next_square_value, and both keep turns and winner as they are.
C16_NavigationFrame ==
    [][/\ (turn_index > 0 /\ PreviousTurn) =>
              /\ turn_index' = turn_index - 1
              /\ next_square_value' = next(next_square_value)
              /\ UNCHANGED <<turns, winner>>
       /\ (turn_index < Len(turns) - 1 /\ NextTurn) =>
              /\ turn_index' = turn_index + 1
              /\ next_square_value' = next(next_square_value)
              /\ UNCHANGED <<turns, winner>>]_vars

\* a PreviousTurn left a won board behind: the winner kept is not the
\* result of calculate_winner on the board now on display
C16_Witness ==
    /\ last.op = "PreviousTurn"
    /\ last.applied
    /\ winner # None
    /\ winner = last.winner
    /\ calculate_winner(Current) = None

\* C17 as stated: no board of turns has two lines completed at once.
C17_OneLineAtMost ==
    \A n \in 1..Len(turns) : Cardinality(Completed(turns[n])) <= 1

\* C17 as amended: every completed line of a board of turns runs through
\* the square marked last on that board, so that no board has completed
\* lines of both marks and two lines are completed at once only by the one
\* mark that completes both.
C17_LinesThroughLastMark ==
    \A n \in 1..Len(turns) :
        Completed(turns[n]) # {} =>
            /\ n > 1
            /\ Changed(turns[n - 1], turns[n]) # {}
            /\ \A k \in Completed(turns[n]) :
                   Changed(turns[n - 1], turns[n]) \subseteq ClaimLines[k]
            /\ \A k, j \in Completed(turns[n]) :
                   \A s \in ClaimLines[k], t \in ClaimLines[j] :
                       turns[n][s] = turns[n][t]

\* a mark was written that completed two lines at once
C17_Witness ==
    /\ Placed
    /\ Cardinality(Completed(Current)) = 2
    /\ winner = "X"

\* the last board of turns
LastBoard == turns[Len(turns)]

\* C18: winner is the result of calculate_winner on the last board of
\* turns, whatever board is on display, and no earlier board of turns has
\* a completed line.
C18_WinnerOfLastBoard ==
    /\ winner = calculate_winner(LastBoard)
    /\ \A n \in 1..(Len(turns) - 1) : Completed(turns[n]) = {}

\* an earlier board is on display while the last board has a winner
C18_Witness ==
    /\ turn_index < Len(turns) - 1
    /\ winner # None
    /\ winner = calculate_winner(LastBoard)
    /\ calculate_winner(Current) = None

\* C19: while a winner is recorded, every message but StartNewGame keeps
\* winner and turns as they are, whatever board is on display, and
\* StartNewGame clears the winner.
C19_WinnerSticks ==
    [][winner # None =>
           IF last'.op = "StartNewGame"
           THEN winner' = None /\ turns' = <<EmptyBoard>>
           ELSE winner' = winner /\ turns' = turns]_vars

\* a click on an empty square of an earlier board was dropped because of
\* the winner recorded for the last board
C19_Witness ==
    /\ ClickDropped
    /\ ~last.occupied
    /\ turn_index < Len(turns) - 1
    /\ winner # None
    /\ winner = last.winner
    /\ Len(turns) = last.len

\* the number of squares of board b that hold mark m
Count(b, m) == Cardinality({s \in Squares : b[s] = m})

\* C20: board i of turns holds ceil(i/2) X and floor(i/2) O and no other
\* mark, turns holds at most 10 boards and turn_index is at most 9.
C20_MarksPerBoard ==
    /\ \A n \in 1..Len(turns) :
           /\ Count(turns[n], "X") = n \div 2
           /\ Count(turns[n], "O") = (n - 1) \div 2
    /\ Len(turns) <= Cardinality(Squares) + 1
    /\ turn_index <= Cardinality(Squares)

\* the ninth mark was written: turns holds ten boards and the last is full
C20_Witness ==
    /\ Placed
    /\ Len(turns) = Cardinality(Squares) + 1
    /\ turn_index = Cardinality(Squares)
    /\ Full(Current)
====
